---- MODULE Spec2Model ----
(***************************************************************************)
(* Model of fastapi_roundtable.main.Roundtable: the constructor, the       *)
(* dependency factory __call__, and the polling loop of validate_session.  *)
(*                                                                         *)
(* Time is the reading of perf_counter(), an integer number of seconds     *)
(* that saturates at MaxTime (every later instant is read as MaxTime; the  *)
(* bound is chosen so that a saturated reading is past every deadline).    *)
(* asyncio.sleep(d) resumes at some instant not earlier than d seconds     *)
(* after it was awaited; a GET completes at any instant.                   *)
(***************************************************************************)
EXTENDS Integers, Sequences, FiniteSets, TLC

\* ---------------------------------------------------------------- bounds
NumCalls == 2          \* call slots (coroutine frames of validate_session)
MaxTimeout == 2        \* session_validation_timeout ranges over 0..MaxTimeout
MaxStart == 1          \* latest clock reading at which a call may begin
MaxFetches == 2        \* the per-call count of GETs saturates here
MaxDeps == 1           \* dependencies created by __call__ that are kept

\* ------------------------------------------------------ program constants
_validation_pooling_interval == 1
DefaultRiskScore == 100
DefaultMaxRiskScore == 50
HTTP_OK == 200

\* ---------------------------------------------------------------- values
None == "None"
Missing == "Missing"               \* a key absent from a JSON object
Calls == 1..NumCalls
Timeouts == 0..MaxTimeout
MaxTime == MaxStart + MaxTimeout + _validation_pooling_interval
RequiredActions == {"submit"}
Scores == {50, 51, 100}
Thresholds == {50, 100}
StatusCodes == {404, 403}
Statuses == {HTTP_OK, 500}
EnvValues == {Missing, "", "env-key"}   \* ROUNDTABLE_API_KEY: unset, empty, set
NotRead == "NotRead"
KeyArgs == {None, "arg-key"}
FieldArgs == {None, "rt_session_id"}

Min(a, b) == IF a < b THEN a ELSE b

\* user_logs as the service may return it: items with or without "action"
Item(a) == [action |-> a]
LogLists == { <<>>, <<Item("click")>>, <<Item("click"), Item("submit")>>,
              <<Item(Missing)>> }
\* a response body: JSON that is an object (whose keys risk_score and
\* user_logs may each be absent), JSON that is a list, or not JSON at all
JsonObjects ==
    [json : {"object"}, has_risk_score : {TRUE}, risk_score : Scores,
     has_user_logs : {TRUE}, user_logs : LogLists]
    \cup [json : {"object"}, has_risk_score : {FALSE}, risk_score : {0},
          has_user_logs : {TRUE}, user_logs : LogLists]
    \cup [json : {"object"}, has_risk_score : {TRUE}, risk_score : Scores,
          has_user_logs : {FALSE}, user_logs : {<<>>}]
Opaque(j) == [json |-> j, has_risk_score |-> FALSE, risk_score |-> 0,
              has_user_logs |-> FALSE, user_logs |-> <<>>]
NotJson == Opaque("invalid")       \* a body response.json() cannot decode
JsonList == Opaque("list")         \* valid JSON whose top level is not an object
NoData == Opaque("none")           \* data is not bound
Bodies == JsonObjects \cup {NotJson, JsonList}

\* what awaiting the GET can produce: the transport raising, or a response
TransportRaise == [kind |-> "raise", status |-> 0, body |-> NotJson]
WellFormed(score, logs) ==
    [json |-> "object", has_risk_score |-> TRUE, risk_score |-> score,
     has_user_logs |-> TRUE, user_logs |-> logs]
\* a non-200 response is tried with an undecodable body and with a body that
\* would have ended the loop had the status been 200
ErrorBodies == {NotJson, WellFormed(50, <<Item("click"), Item("submit")>>)}
Responses ==
    {TransportRaise}
    \cup [kind : {"http"}, status : {HTTP_OK}, body : Bodies]
    \cup [kind : {"http"}, status : Statuses \ {HTTP_OK}, body : ErrorBodies]
NoResponse == [kind |-> "none", status |-> 0]

NoException == [type |-> None, status_code |-> 0]
Exception(t) == [type |-> t, status_code |-> 0]
HTTPException(sc) == [type |-> "HTTPException", status_code |-> sc]

VARIABLES
    environ,            \* what environ.get("ROUNDTABLE_API_KEY", "") was read as
    init_raised,        \* what Roundtable(...) raised, None before / on success
    api_key, status_code, max_risk_score, aiohttp_session,   \* __slots__
    deps,               \* the closures __call__ has returned, in order
    last_call,          \* the arguments and outcome of the latest __call__
    now,                \* perf_counter()
    pc,                 \* per call: "idle", "sleep", "get", "done"
    require_action, session_validation_timeout,              \* arguments
    start_time, sleep_for, risk_score, data, response,       \* locals
    wake,               \* when the pending asyncio.sleep may resume
    exit,               \* which break left the loop
    raised,             \* the exception validate_session ended with
    fetches             \* GETs issued by the call (saturating)

config == <<api_key, status_code, max_risk_score, aiohttp_session>>
factory == <<deps, last_call>>
frames == <<pc, require_action, session_validation_timeout, start_time, sleep_for,
            risk_score, data, response, wake, exit, raised, fetches>>
vars == <<environ, init_raised, config, factory, now, frames>>

NoCall == [form_field |-> None, http_header |-> None, body_field |-> None,
           raised |-> "NoCall"]
Unset == "Unset"
Constructed == aiohttp_session = "open"

\* ------------------------------------------------------------ __init__
\* the test of line 56 as "is None": an empty fallback is taken as a key
ResolveKey_EmptyAccepted(key, env) ==
    IF key = None THEN env ELSE key

\* lines 52-57: the key that is stored, or Missing when ValueError is raised
ResolveKey(key, env) ==
    IF key = None
    THEN (IF env = Missing \/ env = "" THEN Missing ELSE env)
    ELSE key

Construct(key, env, sc, mrs) ==
    /\ ~Constructed
    /\ environ' = IF key = None THEN env ELSE NotRead
    /\ LET k == ResolveKey(key, env) IN
       IF k = Missing
       THEN /\ init_raised' = "ValueError"
            /\ UNCHANGED config
       ELSE /\ init_raised' = None
            /\ api_key' = k
            /\ status_code' = sc
            /\ max_risk_score' = mrs
            /\ aiohttp_session' = "open"
    /\ UNCHANGED <<factory, now, frames>>

\* ------------------------------------------------------------ __call__
\* line 201
GivenCount(ff, hh, bf) ==
    (IF ff # None THEN 1 ELSE 0) + (IF hh # None THEN 1 ELSE 0)
        + (IF bf # None THEN 1 ELSE 0)

\* the check as it would read with ">= 1" in place of "!= 1" negated
ExactlyOneSource_AtLeastOne(ff, hh, bf) == GivenCount(ff, hh, bf) >= 1

ExactlyOneSource(ff, hh, bf) == GivenCount(ff, hh, bf) = 1

\* lines 206-213
Source(ff, hh, bf) ==
    IF ff # None THEN [kind |-> "Form", alias |-> ff]
    ELSE IF hh # None THEN [kind |-> "Header", alias |-> hh]
    ELSE IF bf # None THEN [kind |-> "Body", alias |-> bf]
    ELSE [kind |-> "ValueError", alias |-> None]

Dunder_call(ff, hh, bf, ra, to) ==
    /\ Constructed
    /\ Len(deps) < MaxDeps
    /\ IF ~ExactlyOneSource(ff, hh, bf) \/ Source(ff, hh, bf).kind = "ValueError"
       THEN /\ last_call' = [form_field |-> ff, http_header |-> hh, body_field |-> bf,
                             raised |-> "ValueError"]
            /\ UNCHANGED deps
       ELSE /\ last_call' = [form_field |-> ff, http_header |-> hh, body_field |-> bf,
                             raised |-> None]
            /\ deps' = Append(deps, [source |-> Source(ff, hh, bf),
                                      require_action |-> ra,
                                      session_validation_timeout |-> to])
    /\ UNCHANGED <<environ, init_raised, config, now, frames>>

\* ------------------------------------------------------ validate_session
\* the branch of lines 93-96 lost: every call sleeps the polling interval
SleepFor_AlwaysInterval(ra, to) == _validation_pooling_interval

\* the branch of lines 93-96 lost the other way: every call sleeps the timeout
SleepFor_AlwaysTimeout(ra, to) == to

\* lines 93-96
SleepFor(ra, to) == IF ra = None THEN to ELSE _validation_pooling_interval

\* the comparison of line 105 as ">= 200"
StatusOK_AtLeast(status) == status >= HTTP_OK

\* line 105
StatusOK(status) == status = HTTP_OK

\* the GET wrapped in a handler that swallows what the transport raises
GetRaises_Swallowed(resp) == FALSE

\* lines 101-104: awaiting the GET raises instead of yielding a response
GetRaises(resp) == resp.kind = "raise"

\* line 110
Actions(user_logs) == { user_logs[i].action : i \in DOMAIN user_logs }

\* the membership test of line 111 as an equality with the whole set
ActionSeen_OnlyAction(ra, actions) == actions = {ra}

\* line 111
ActionSeen(ra, actions) == ra \in actions

\* start_time kept in one attribute of the instance instead of a local: the
\* elapsed time is measured from the latest start of any call
TimedOut_SharedStart(clock, start, to) ==
    clock - (CHOOSE s \in {start_time[c] : c \in Calls} :
                \A c \in Calls : start_time[c] <= s) > to

\* the elapsed-time test of line 115 lost
TimedOut_Never(clock, start, to) == FALSE

\* the comparison of line 115 as ">="
TimedOut_AtDeadline(clock, start, to) == clock - start >= to

\* line 115
TimedOut(clock, start, to) == clock - start > to

\* the timeout break taking the fetched score
ScoreOnTimeout_Fetched(score, d) == d.risk_score

\* lines 115-118: the score the timeout break leaves in risk_score
ScoreOnTimeout(score, d) == score

\* the comparison of line 124 as ">="
Rejects_AtThreshold(score, mrs) == score >= mrs

\* line 124
Rejects(score, mrs) == score > mrs

\* the elapsed-time test of line 115 moved above the membership test
LoopExit_DeadlineFirst(seen, late) ==
    IF late THEN "timeout" ELSE IF seen THEN "action" ELSE None

\* lines 111-118: which break, if any, a 200 response brings when an action
\* is required; membership is tested first
LoopExit(seen, late) ==
    IF seen THEN "action" ELSE IF late THEN "timeout" ELSE None

Continue(d) == [next |-> "continue", exc |-> None, score |-> DefaultRiskScore,
                exit |-> None, data |-> d]
Raise(t, d) == [next |-> "raise", exc |-> t, score |-> DefaultRiskScore,
                exit |-> None, data |-> d]
\* the breaks of lines 112-113 and 120-122 without their assignment to
\* risk_score
Break_KeepsSentinel(how, s, d) ==
    [next |-> "break", exc |-> None, score |-> DefaultRiskScore,
     exit |-> how, data |-> d]

Break(how, s, d) == [next |-> "break", exc |-> None, score |-> s,
                     exit |-> how, data |-> d]

\* lines 105-122: one pass of the loop body over what the GET produced;
\* cur is what data is bound to before the pass
Process(ra, start, to, clock, score, cur, resp) ==
    IF GetRaises(resp) THEN Raise("ClientError", cur)
    ELSE IF ~StatusOK(resp.status) THEN Continue(cur)
    ELSE IF resp.body = NotJson THEN Raise("JSONDecodeError", cur)
    ELSE LET d == resp.body IN
         IF ra # None
         THEN IF d = JsonList THEN Raise("TypeError", d)
              ELSE IF ~d.has_user_logs THEN Raise("KeyError", d)
              ELSE IF Missing \in Actions(d.user_logs) THEN Raise("KeyError", d)
              ELSE LET how == LoopExit(ActionSeen(ra, Actions(d.user_logs)),
                                       TimedOut(clock, start, to))
                   IN IF how = "action"
                      THEN IF ~d.has_risk_score THEN Raise("KeyError", d)
                           ELSE Break("action", d.risk_score, d)
                      ELSE IF how = "timeout"
                      THEN Break("timeout", ScoreOnTimeout(score, d), d)
                      ELSE Continue(d)
         ELSE IF d = JsonList THEN Raise("TypeError", d)
              ELSE IF ~d.has_risk_score THEN Raise("KeyError", d)
              ELSE Break("no-action", d.risk_score, d)

\* the sleep of lines 99-100 lost: the GET is awaited at once
LoopTop_NoSleep(c, s) ==
    /\ pc' = [pc EXCEPT ![c] = "get"]
    /\ wake' = [wake EXCEPT ![c] = 0]
    /\ fetches' = [fetches EXCEPT ![c] = Min(@ + 1, MaxFetches)]

\* lines 98-104: the top of the loop, either awaiting the sleep or the GET
LoopTop(c, s) ==
    IF s > 0
    THEN /\ pc' = [pc EXCEPT ![c] = "sleep"]
         /\ wake' = [wake EXCEPT ![c] = Min(now + s, MaxTime)]
         /\ UNCHANGED fetches
    ELSE /\ pc' = [pc EXCEPT ![c] = "get"]
         /\ wake' = [wake EXCEPT ![c] = 0]
         /\ fetches' = [fetches EXCEPT ![c] = Min(@ + 1, MaxFetches)]

Waiting(c) == pc[c] \in {"sleep", "get"}

\* a call that records the status it fails with on the instance
SlotsOnlyRead_StatusWritten ==
    /\ status_code' = 403
    /\ UNCHANGED <<api_key, max_risk_score, aiohttp_session>>

\* lines 68-125 read self.api_key, self.aiohttp_session, self.max_risk_score
\* and self.status_code and assign none of them
SlotsOnlyRead == UNCHANGED config

\* lines 68-100: validate_session is called and runs to its first await
Validate(c, ra, to) ==
    /\ Constructed
    /\ pc[c] = "idle"
    /\ now <= MaxStart
    /\ require_action' = [require_action EXCEPT ![c] = ra]
    /\ session_validation_timeout' = [session_validation_timeout EXCEPT ![c] = to]
    /\ start_time' = [start_time EXCEPT ![c] = now]
    /\ risk_score' = [risk_score EXCEPT ![c] = DefaultRiskScore]
    /\ sleep_for' = [sleep_for EXCEPT ![c] = SleepFor(ra, to)]
    /\ LoopTop(c, SleepFor(ra, to))
    /\ SlotsOnlyRead
    /\ UNCHANGED <<environ, init_raised, factory, now,
                   data, response, exit, raised>>

\* lines 215-222: the dependency returned by __call__ is invoked for a request
Dependency(c, d) ==
    /\ \E i \in DOMAIN deps : deps[i] = d
    /\ Validate(c, d.require_action, d.session_validation_timeout)

\* line 100: asyncio.sleep returns
Wake(c) ==
    /\ pc[c] = "sleep"
    /\ now >= wake[c]
    /\ pc' = [pc EXCEPT ![c] = "get"]
    /\ fetches' = [fetches EXCEPT ![c] = Min(@ + 1, MaxFetches)]
    /\ SlotsOnlyRead
    /\ UNCHANGED <<environ, init_raised, factory, now, require_action,
                   session_validation_timeout, start_time, sleep_for, risk_score,
                   data, response, wake, exit, raised>>

\* lines 101-125: the GET completes, the loop body runs, and on leaving the
\* loop the threshold decides
Receive(c, resp) ==
    /\ pc[c] = "get"
    /\ LET r == Process(require_action[c], start_time[c],
                        session_validation_timeout[c], now, risk_score[c], data[c],
                        resp)
       IN /\ response' = [response EXCEPT ![c] =
                             [kind |-> resp.kind, status |-> resp.status]]
          /\ data' = [data EXCEPT ![c] = r.data]
          /\ exit' = [exit EXCEPT ![c] = r.exit]
          /\ risk_score' = [risk_score EXCEPT ![c] = r.score]
          /\ CASE r.next = "continue" ->
                    /\ LoopTop(c, sleep_for[c])
                    /\ UNCHANGED raised
               [] r.next = "raise" ->
                    /\ pc' = [pc EXCEPT ![c] = "done"]
                    /\ raised' = [raised EXCEPT ![c] = Exception(r.exc)]
                    /\ UNCHANGED <<wake, fetches>>
               [] r.next = "break" ->
                    /\ pc' = [pc EXCEPT ![c] = "done"]
                    /\ raised' = [raised EXCEPT ![c] =
                                     IF Rejects(r.score, max_risk_score)
                                     THEN HTTPException(status_code)
                                     ELSE NoException]
                    /\ UNCHANGED <<wake, fetches>>
    /\ SlotsOnlyRead
    /\ UNCHANGED <<environ, init_raised, factory, now, require_action,
                   session_validation_timeout, start_time, sleep_for>>

\* the coroutine has returned or raised: its frame is gone.  perf_counter's
\* reference point is arbitrary, so with no call in progress the clock is
\* read from 0 again.
Return(c) ==
    /\ pc[c] = "done"
    /\ pc' = [pc EXCEPT ![c] = "idle"]
    /\ require_action' = [require_action EXCEPT ![c] = None]
    /\ session_validation_timeout' = [session_validation_timeout EXCEPT ![c] = 0]
    /\ start_time' = [start_time EXCEPT ![c] = 0]
    /\ sleep_for' = [sleep_for EXCEPT ![c] = 0]
    /\ risk_score' = [risk_score EXCEPT ![c] = DefaultRiskScore]
    /\ data' = [data EXCEPT ![c] = NoData]
    /\ response' = [response EXCEPT ![c] = NoResponse]
    /\ wake' = [wake EXCEPT ![c] = 0]
    /\ exit' = [exit EXCEPT ![c] = None]
    /\ raised' = [raised EXCEPT ![c] = NoException]
    /\ fetches' = [fetches EXCEPT ![c] = 0]
    /\ now' = IF \A o \in Calls \ {c} : pc[o] = "idle" THEN 0 ELSE now
    /\ SlotsOnlyRead
    /\ UNCHANGED <<environ, init_raised, factory>>

\* the clock advances while a call waits, and before a call begins
Tick ==
    /\ Constructed
    /\ \/ \E c \in Calls : Waiting(c)
       \/ now < MaxStart
    /\ now' = Min(now + 1, MaxTime)
    /\ UNCHANGED <<environ, init_raised, config, factory, frames>>

NoFrames ==
    /\ now = 0
    /\ pc = [c \in Calls |-> "idle"]
    /\ require_action = [c \in Calls |-> None]
    /\ session_validation_timeout = [c \in Calls |-> 0]
    /\ start_time = [c \in Calls |-> 0]
    /\ sleep_for = [c \in Calls |-> 0]
    /\ risk_score = [c \in Calls |-> DefaultRiskScore]
    /\ data = [c \in Calls |-> NoData]
    /\ response = [c \in Calls |-> NoResponse]
    /\ wake = [c \in Calls |-> 0]
    /\ exit = [c \in Calls |-> None]
    /\ raised = [c \in Calls |-> NoException]
    /\ fetches = [c \in Calls |-> 0]

\* a validator constructed with an explicit api_key (lines 58-66), any
\* status_code and max_risk_score, and no call in progress
Init ==
    /\ environ = NotRead
    /\ init_raised = None
    /\ api_key = "arg-key"
    /\ status_code \in StatusCodes
    /\ max_risk_score \in Thresholds
    /\ aiohttp_session = "open"
    /\ deps = <<>>
    /\ last_call = NoCall
    /\ NoFrames

\* one request at a time
Alone(c) == \A o \in Calls \ {c} : pc[o] = "idle"

\* the steps of the calls in progress and of the clock
Poll(resps) ==
    \/ \E c \in Calls : Wake(c)
    \/ \E c \in Calls, resp \in resps : Receive(c, resp)
    \/ \E c \in Calls : Return(c)
    \/ Tick

Next ==
    \/ \E c \in Calls, ra \in RequiredActions \cup {None}, to \in Timeouts :
            Alone(c) /\ Validate(c, ra, to)
    \/ Poll(Responses)

Spec == Init /\ [][Next]_vars

\* The event loop resumes a coroutine whose sleep has expired or whose GET
\* has completed, and the clock advances.
Fairness ==
    /\ WF_vars(Tick)
    /\ \A c \in Calls : WF_vars(Wake(c))
    /\ \A c \in Calls : WF_vars(\E resp \in Responses : Receive(c, resp))

FairSpec == Init /\ [][Next]_vars /\ Fairness

\* 200 responses whose body has risk_score and user_logs, every item with its
\* action: the ones lines 107-122 process without raising
WellFormedResponses ==
    { r \in Responses :
        /\ r.kind = "http" /\ r.status = HTTP_OK
        /\ r.body.json = "object" /\ r.body.has_risk_score /\ r.body.has_user_logs
        /\ \A i \in DOMAIN r.body.user_logs : r.body.user_logs[i].action # Missing }

\* A responsive service: the clock advances, sleeps return, and a call that
\* keeps fetching gets a well-formed 200 response again and again.
Responsive ==
    /\ WF_vars(Tick)
    /\ \A c \in Calls : WF_vars(Wake(c))
    /\ \A c \in Calls : SF_vars(\E resp \in WellFormedResponses : Receive(c, resp))

ResponsiveSpec == Init /\ [][Next]_vars /\ Responsive

\* The application from the start: nothing is constructed, the validator is
\* built, dependencies are made by __call__ and invoked for requests.
AppInit ==
    /\ environ = NotRead
    /\ init_raised = None
    /\ api_key = Unset
    /\ status_code = 0
    /\ max_risk_score = 0
    /\ aiohttp_session = Unset
    /\ deps = <<>>
    /\ last_call = NoCall
    /\ NoFrames

\* what the service answers in the application runs: the transport raising, a
\* 500, and 200 with a body that ends either kind of call
AppResponses ==
    { TransportRaise,
      [kind |-> "http", status |-> 500, body |-> NotJson],
      [kind |-> "http", status |-> HTTP_OK,
       body |-> WellFormed(51, <<Item("click"), Item("submit")>>)] }

\* the timeouts the application's dependencies are made with
AppTimeouts == {0, MaxTimeout}

\* routes are declared, and their dependencies made, between requests
Quiet == \A c \in Calls : pc[c] = "idle"

AppNext ==
    \/ \E key \in KeyArgs, env \in EnvValues, sc \in StatusCodes :
            Construct(key, env, sc, DefaultMaxRiskScore)
    \/ \E ff \in FieldArgs, hh \in FieldArgs, bf \in FieldArgs,
          ra \in RequiredActions \cup {None}, to \in AppTimeouts :
            Quiet /\ Dunder_call(ff, hh, bf, ra, to)
    \/ \E c \in Calls, d \in {deps[i] : i \in DOMAIN deps} :
            Alone(c) /\ Dependency(c, d)
    \/ Poll(AppResponses)

AppSpec == AppInit /\ [][AppNext]_vars

\* Requests served concurrently: validate_session coroutines of one instance
\* interleave at their awaits (lines 100 and 101-104) with no call waiting
\* for another.
ConcInit ==
    /\ environ = NotRead
    /\ init_raised = None
    /\ api_key = "arg-key"
    /\ status_code = 404
    /\ max_risk_score = DefaultMaxRiskScore
    /\ aiohttp_session = "open"
    /\ deps = <<>>
    /\ last_call = NoCall
    /\ NoFrames

\* what the service answers in the concurrent runs: the transport raising, a
\* 500, and 200 with a body that has or lacks the required action
ConcResponses ==
    { TransportRaise,
      [kind |-> "http", status |-> 500, body |-> NotJson],
      [kind |-> "http", status |-> HTTP_OK,
       body |-> WellFormed(50, <<Item("click")>>)],
      [kind |-> "http", status |-> HTTP_OK,
       body |-> WellFormed(51, <<Item("click"), Item("submit")>>)] }

ConcNext ==
    \/ \E c \in Calls, ra \in RequiredActions \cup {None}, to \in Timeouts :
            Validate(c, ra, to)
    \/ Poll(ConcResponses)

ConcSpec == ConcInit /\ [][ConcNext]_vars

\* ------------------------------------------------------------ properties
ModeA(c) == pc[c] # "idle" /\ require_action[c] = None
ModeB(c) == pc[c] # "idle" /\ require_action[c] # None
Done(c) == pc[c] = "done"
Decided(c) == Done(c) /\ exit[c] # None
Accepted(c) == Done(c) /\ raised[c] = NoException
Rejected(c) == Done(c) /\ raised[c] = HTTPException(status_code)
Elapsed(c) == now - start_time[c]

\* C1: a call that leaves the loop with score s rejects, raising HTTPException
\* with the configured status_code, iff s > max_risk_score, and otherwise
\* returns normally; s = max_risk_score accepts.
C1_DecisionPolicy ==
    \A c \in Calls :
        Decided(c) =>
            /\ (risk_score[c] > max_risk_score <=> Rejected(c))
            /\ (risk_score[c] <= max_risk_score <=> Accepted(c))

C1_Witness ==
    \E c \in Calls :
        /\ Decided(c) /\ risk_score[c] = max_risk_score /\ Accepted(c)
        /\ max_risk_score = 50

\* C2: every call ends in exactly one terminal outcome and does not remain in
\* the polling loop forever, whatever 200 / non-200 responses it receives:
\* a call that is waiting eventually is done.
C2_ExactlyOneOutcome ==
    \A c \in Calls : Waiting(c) ~> Done(c)

HasRequired(c, d) ==
    /\ d.json = "object" /\ d.has_risk_score /\ d.has_user_logs
    /\ \A i \in DOMAIN d.user_logs : d.user_logs[i].action # Missing
    /\ \E i \in DOMAIN d.user_logs : d.user_logs[i].action = require_action[c]

\* C4: with require_action set, when the first GET returns 200 with the
\* required action among user_logs, that step ends the loop after exactly one
\* fetch and the decision uses that response's risk_score, for every timeout.
C4_FirstPollSuccess ==
    [][\A c \in Calls :
        ( /\ pc[c] = "get" /\ require_action[c] # None
          /\ fetches[c] = 1 /\ response[c] = NoResponse
          /\ response'[c].kind = "http" /\ response'[c].status = 200
          /\ HasRequired(c, data'[c]) ) =>
            /\ pc'[c] = "done"
            /\ exit'[c] = "action"
            /\ fetches'[c] = 1
            /\ risk_score'[c] = data'[c].risk_score
            /\ (data'[c].risk_score > max_risk_score
                    <=> raised'[c] = HTTPException(status_code))
            /\ (data'[c].risk_score <= max_risk_score
                    <=> raised'[c] = NoException)]_vars

C4_Witness ==
    \E c \in Calls :
        /\ Done(c) /\ exit[c] = "action" /\ fetches[c] = 1
        /\ Elapsed(c) > session_validation_timeout[c]
        /\ risk_score[c] = 100 /\ max_risk_score = 50 /\ Rejected(c)

\* C5 as stated: with require_action None, no GET is awaited before the
\* whole timeout has been slept, and the call decides after exactly one fetch.
C5_SingleFetch ==
    \A c \in Calls :
        /\ (ModeA(c) /\ pc[c] = "get") => Elapsed(c) >= session_validation_timeout[c]
        /\ (ModeA(c) /\ Decided(c)) => fetches[c] = 1

\* C5 amended: with require_action None, no GET is awaited before the whole
\* timeout has been slept; a first GET that returns 200 ends the call after
\* exactly one fetch; a decision is always taken on the risk_score of the
\* 200 response just processed.
C5_SingleFetchOn200 ==
    /\ [](\A c \in Calls :
            /\ (ModeA(c) /\ pc[c] = "get")
                   => Elapsed(c) >= session_validation_timeout[c]
            /\ (ModeA(c) /\ Decided(c))
                   => /\ exit[c] = "no-action"
                      /\ response[c].status = 200
                      /\ data[c].has_risk_score
                      /\ risk_score[c] = data[c].risk_score)
    /\ [][\A c \in Calls :
            ( /\ pc[c] = "get" /\ require_action[c] = None
              /\ fetches[c] = 1 /\ response[c] = NoResponse
              /\ response'[c].status = 200 ) =>
                (pc'[c] = "done" /\ fetches'[c] = 1)]_vars

C5_Witness ==
    \E c \in Calls :
        /\ ModeA(c) /\ Decided(c) /\ fetches[c] = 1
        /\ session_validation_timeout[c] = MaxTimeout
        /\ Elapsed(c) >= session_validation_timeout[c]

\* C6: with require_action set, once the timeout has elapsed the call reaches
\* a terminal state by itself within one polling interval, whatever the
\* fetches return: a response processed after the deadline ends the call
\* instead of starting another sleep.
C6_BoundedAfterDeadline ==
    [][\A c \in Calls :
        ( /\ pc[c] = "get" /\ require_action[c] # None
          /\ pc'[c] # "get"
          /\ Elapsed(c) > session_validation_timeout[c] ) =>
            pc'[c] = "done"]_vars

\* C7: with require_action set, a non-200 response never ends the call (it
\* goes back to sleep, whatever the number of failed fetches), and the loop
\* is left by a break only on a 200 response that carries the required
\* action or is processed with elapsed time strictly beyond the timeout.
C7_FailuresNeverEndLoop ==
    [][\A c \in Calls :
        (pc[c] = "get" /\ require_action[c] # None /\ pc'[c] # "get") =>
            /\ (response'[c].kind = "http" /\ response'[c].status # 200)
                   => (pc'[c] = "sleep" /\ exit'[c] = None /\ raised'[c] = NoException)
            /\ (pc'[c] = "done" /\ exit'[c] # None)
                   => /\ response'[c].kind = "http" /\ response'[c].status = 200
                      /\ \/ exit'[c] = "action" /\ HasRequired(c, data'[c])
                         \/ /\ exit'[c] = "timeout"
                            /\ Elapsed(c) > session_validation_timeout[c]]_vars

C7_Witness ==
    \E c \in Calls :
        /\ ModeB(c) /\ pc[c] = "sleep"
        /\ response[c].kind = "http" /\ response[c].status = 500
        /\ fetches[c] = MaxFetches
        /\ Elapsed(c) > session_validation_timeout[c]

MalformedErrors == {"JSONDecodeError", "TypeError", "KeyError"}

\* C8: a 200 response whose body is not JSON of the expected shape is handled
\* like a non-200 status: it is retried within the loop and no error reaches
\* the caller.
C8_MalformedRetried ==
    \A c \in Calls : raised[c].type \notin MalformedErrors

\* C9: when the transport raises during a GET the call neither retries nor
\* rejects: it ends at once with the transport's error, which is not the
\* HTTPException of a rejection, and no accept/reject decision is taken.
C9_TransportErrorPropagates ==
    \A c \in Calls :
        response[c].kind = "raise" =>
            /\ Done(c)
            /\ raised[c] = Exception("ClientError")
            /\ raised[c].type # "HTTPException"
            /\ exit[c] = None
            /\ ~Accepted(c) /\ ~Rejected(c)

C9_Witness ==
    \E c \in Calls :
        /\ response[c].kind = "raise" /\ Done(c)
        /\ ModeB(c) /\ fetches[c] = MaxFetches

\* C10: __call__ raises ValueError when zero or two or more of form_field,
\* http_header and body_field are given, creating no dependency and touching
\* no call or network state; given exactly one it raises nothing and returns
\* a dependency carrying that source and the polling options.
C10_ExactlyOneSource ==
    [][last_call' # last_call =>
        LET a == last_call'
            n == Cardinality({f \in {"form_field", "http_header", "body_field"} :
                                  a[f] # None})
        IN /\ n # 1 => /\ a.raised = "ValueError"
                       /\ UNCHANGED <<deps, frames, config, now>>
           /\ n = 1 => /\ a.raised = None
                       /\ Len(deps') = Len(deps) + 1
                       /\ LET d == deps'[Len(deps')]
                          IN
                            /\ deps' = Append(deps, d)
                            /\ d.source.alias = "rt_session_id"
                            /\ d.source.kind =
                                 (IF a.form_field # None THEN "Form"
                                  ELSE IF a.http_header # None THEN "Header"
                                  ELSE "Body")
                       /\ UNCHANGED <<frames, config, now>>]_vars

C10_Witness ==
    /\ last_call.raised = "ValueError"
    /\ last_call.form_field # None /\ last_call.body_field # None
    /\ deps = <<>>

\* C11: constructing with no explicit api_key while ROUNDTABLE_API_KEY is
\* unset or empty raises ValueError before the transport session is created:
\* no slot is set, so no validator exists, no dependency can be made and no
\* session is validated.
C11_MissingCredential ==
    /\ (environ \in {Missing, ""}) <=> (init_raised = "ValueError")
    /\ (environ \in {Missing, ""}) =>
          /\ ~Constructed
          /\ api_key = Unset /\ aiohttp_session = Unset
          /\ status_code = 0 /\ max_risk_score = 0
          /\ deps = <<>>
          /\ \A c \in Calls : pc[c] = "idle" /\ fetches[c] = 0
    /\ Constructed => api_key \notin {Unset, Missing, ""}

C11_Witness ==
    /\ environ = "" /\ init_raised = "ValueError" /\ aiohttp_session = Unset

\* one call's arguments, locals and position
Frame(c) ==
    <<pc[c], require_action[c], session_validation_timeout[c], start_time[c],
      sleep_for[c], risk_score[c], data[c], response[c], wake[c], exit[c],
      raised[c], fetches[c]>>

\* C12: calls interleaved at their sleeps and fetches are independent: a step
\* of one call leaves every other call's frame and the configuration as they
\* were, and what the step does to its own call is what the call would do
\* alone, decided by its own arguments, its own start_time and sleep_for, the
\* response it received and the clock.
C12_ConcurrentCallsIndependent ==
    [][\A c \in Calls :
        /\ Frame(c)' # Frame(c) =>
              /\ \A o \in Calls \ {c} : Frame(o)' = Frame(o)
              /\ config' = config
        /\ (pc[c] = "get" /\ pc'[c] \in {"sleep", "done"}) =>
              LET ra == require_action[c]
                  to == session_validation_timeout[c]
                  d  == data'[c]
                  ok == response'[c].kind = "http" /\ response'[c].status = 200
              IN /\ require_action'[c] = ra
                 /\ session_validation_timeout'[c] = to
                 /\ start_time'[c] = start_time[c]
                 /\ sleep_for'[c] = sleep_for[c]
                 /\ (response'[c].kind = "http" /\ ~ok) =>
                        /\ pc'[c] = "sleep" /\ exit'[c] = None
                        /\ wake'[c] = Min(now + sleep_for[c], MaxTime)
                 /\ (ok /\ ra = None) =>
                        /\ pc'[c] = "done" /\ exit'[c] = "no-action"
                        /\ risk_score'[c] = d.risk_score
                 /\ (ok /\ ra # None /\ HasRequired(c, d)) =>
                        /\ pc'[c] = "done" /\ exit'[c] = "action"
                        /\ risk_score'[c] = d.risk_score
                 /\ (ok /\ ra # None /\ ~HasRequired(c, d)) =>
                        IF now - start_time[c] > to
                        THEN /\ pc'[c] = "done" /\ exit'[c] = "timeout"
                             /\ risk_score'[c] = DefaultRiskScore
                        ELSE /\ pc'[c] = "sleep" /\ exit'[c] = None
                             /\ wake'[c] = Min(now + sleep_for[c], MaxTime)
                 /\ exit'[c] # None =>
                        raised'[c] = IF risk_score'[c] > max_risk_score
                                     THEN HTTPException(status_code)
                                     ELSE NoException]_vars

\* two calls in progress that began at different times, one already ended by
\* its timeout while the other, within its own timeout, polls on
C12_Witness ==
    \E c \in Calls, o \in Calls :
        /\ c # o /\ start_time[c] # start_time[o]
        /\ Done(c) /\ exit[c] = "timeout"
        /\ ModeB(o) /\ pc[o] = "sleep" /\ fetches[o] >= 1
        /\ response[o].status = 200
        /\ Elapsed(o) <= session_validation_timeout[o]

\* C13 as stated: with require_action None, a non-200 response is discarded
\* and the next GET is awaited at once, with no sleep between the two.
C13_ImmediateRetry ==
    [][\A c \in Calls :
        ( /\ pc[c] = "get" /\ require_action[c] = None
          /\ Frame(c)' # Frame(c)
          /\ response'[c].kind = "http" /\ response'[c].status # 200 ) =>
            /\ pc'[c] = "get"
            /\ wake'[c] = 0]_vars

\* C13 amended: with require_action None, a non-200 response is discarded
\* (no decision, no error, the score still the sentinel) and the call goes
\* back to the top of the loop, where it sleeps the whole timeout again
\* before the next GET; the next GET is awaited at once only when the
\* timeout is 0.
C13_RetryAfterTimeoutSleep ==
    [][\A c \in Calls :
        ( /\ pc[c] = "get" /\ require_action[c] = None
          /\ Frame(c)' # Frame(c)
          /\ response'[c].kind = "http" /\ response'[c].status # 200 ) =>
            /\ exit'[c] = None /\ raised'[c] = NoException
            /\ risk_score'[c] = DefaultRiskScore
            /\ sleep_for'[c] = session_validation_timeout[c]
            /\ IF session_validation_timeout[c] > 0
               THEN /\ pc'[c] = "sleep"
                    /\ wake'[c] = Min(now + session_validation_timeout[c], MaxTime)
                    /\ fetches'[c] = fetches[c]
               ELSE /\ pc'[c] = "get" /\ wake'[c] = 0]_vars

C13_Witness ==
    \E c \in Calls :
        /\ ModeA(c) /\ pc[c] = "sleep" /\ fetches[c] = 1
        /\ response[c].kind = "http" /\ response[c].status = 500
        /\ session_validation_timeout[c] = MaxTimeout
        /\ wake[c] > now

\* a body processed without error whose items lack the required action
LacksRequired(c, d) ==
    /\ d.json = "object" /\ d.has_user_logs
    /\ \A i \in DOMAIN d.user_logs :
          d.user_logs[i].action \notin {Missing, require_action[c]}

\* C14: with require_action set, the timeout break is taken only when the
\* elapsed time is strictly greater than the timeout; while elapsed <= timeout
\* the loop is left by a break only on a response carrying the required
\* action, and a 200 response lacking it sends the call back to sleep.
C14_NoEarlyTimeout ==
    [][\A c \in Calls :
        (pc[c] = "get" /\ require_action[c] # None /\ pc'[c] # "get") =>
            /\ exit'[c] = "timeout" => Elapsed(c) > session_validation_timeout[c]
            /\ (Elapsed(c) <= session_validation_timeout[c] /\ exit'[c] # None)
                   => (exit'[c] = "action" /\ HasRequired(c, data'[c]))
            /\ ( /\ Elapsed(c) <= session_validation_timeout[c]
                 /\ response'[c].kind = "http" /\ response'[c].status = 200
                 /\ LacksRequired(c, data'[c])
                 /\ raised'[c].type \notin MalformedErrors )
                   => /\ pc'[c] = "sleep" /\ exit'[c] = None
                      /\ risk_score'[c] = DefaultRiskScore]_vars

\* a response lacking the action was processed exactly at the deadline and
\* the call went back to sleep
C14_Witness ==
    \E c \in Calls :
        /\ ModeB(c) /\ pc[c] = "sleep" /\ exit[c] = None
        /\ response[c].status = 200 /\ LacksRequired(c, data[c])
        /\ session_validation_timeout[c] >= 1
        /\ Elapsed(c) = session_validation_timeout[c]
        /\ wake[c] = now + _validation_pooling_interval

\* C15: with require_action set, sleep_for is the polling interval of 1
\* second whatever the timeout; the call begins by sleeping; a GET is awaited
\* only when a sleep of one polling interval has returned; and whatever a GET
\* produces, the call does not await another GET without sleeping first.
C15_SleepBeforeEveryFetch ==
    /\ [](\A c \in Calls :
            ModeB(c) => /\ sleep_for[c] = 1
                        /\ sleep_for[c] = _validation_pooling_interval
                        /\ (pc[c] = "sleep" => wake[c] <= now + sleep_for[c]))
    /\ [][\A c \in Calls :
            require_action'[c] # None =>
                /\ (pc[c] = "idle" /\ pc'[c] # "idle") =>
                       /\ pc'[c] = "sleep" /\ fetches'[c] = 0
                       /\ wake'[c] = Min(now + _validation_pooling_interval, MaxTime)
                /\ (pc[c] # "get" /\ pc'[c] = "get") =>
                       (pc[c] = "sleep" /\ now >= wake[c])
                /\ (pc[c] = "get" /\ pc'[c] = "get") => Frame(c)' = Frame(c)
                /\ (pc[c] = "get" /\ pc'[c] = "sleep") =>
                       wake'[c] = Min(now + _validation_pooling_interval, MaxTime)]_vars

\* a call with timeout 0 awaiting its second GET, after a non-200 response
\* and a further sleep
C15_Witness ==
    \E c \in Calls :
        /\ ModeB(c) /\ pc[c] = "get" /\ fetches[c] = 2
        /\ response[c].kind = "http" /\ response[c].status = 500
        /\ session_validation_timeout[c] = 0
        /\ now >= wake[c] /\ wake[c] >= start_time[c] + 2

C17_ActionBeatsDeadline ==
    [][\A c \in Calls :
        ( /\ pc[c] = "get" /\ require_action[c] # None
          /\ Frame(c)' # Frame(c)
          /\ Elapsed(c) > session_validation_timeout[c]
          /\ response'[c].kind = "http" /\ response'[c].status = 200
          /\ raised'[c].type \notin MalformedErrors
          /\ HasRequired(c, data'[c]) ) =>
            /\ pc'[c] = "done"
            /\ exit'[c] = "action" /\ exit'[c] # "timeout"
            /\ risk_score'[c] = data'[c].risk_score
            /\ (raised'[c] = NoException <=> data'[c].risk_score <= max_risk_score)
            /\ (raised'[c] = HTTPException(status_code)
                    <=> data'[c].risk_score > max_risk_score)]_vars

\* the action arrived with the second poll, awaited after the deadline, and
\* the fetched score 50 was accepted where the sentinel would have been
\* rejected
C17_Witness ==
    \E c \in Calls :
        /\ Done(c) /\ exit[c] = "action" /\ fetches[c] = 2
        /\ wake[c] - start_time[c] > session_validation_timeout[c]
        /\ risk_score[c] = 50 /\ max_risk_score = 50 /\ Accepted(c)

\* C18: the working score is the sentinel 100 until the loop is left, and a
\* decision is taken on a 200 response: the timeout break, in a call with
\* require_action set and on a response lacking the action, keeps the
\* sentinel and never takes that response's risk_score; the action break
\* takes the risk_score of the response carrying the action; a call with
\* require_action None always decides on the risk_score of the response
\* that ended the loop, never on the sentinel.
C18_ScoreProvenance ==
    \A c \in Calls :
        /\ ~Decided(c) => risk_score[c] = DefaultRiskScore
        /\ Decided(c) =>
              /\ response[c].kind = "http" /\ response[c].status = 200
              /\ \/ risk_score[c] = 100
                 \/ data[c].has_risk_score /\ risk_score[c] = data[c].risk_score
              /\ exit[c] = "timeout" =>
                    /\ require_action[c] # None /\ ~HasRequired(c, data[c])
                    /\ risk_score[c] = 100
              /\ exit[c] = "action" =>
                    /\ require_action[c] # None /\ HasRequired(c, data[c])
                    /\ risk_score[c] = data[c].risk_score
              /\ require_action[c] = None =>
                    /\ exit[c] = "no-action"
                    /\ data[c].json = "object" /\ data[c].has_risk_score
                    /\ risk_score[c] = data[c].risk_score
              /\ (require_action[c] # None /\ ~HasRequired(c, data[c])) =>
                    (exit[c] = "timeout" /\ risk_score[c] = 100)

\* a timed-out call whose last response carried the score 51 without the
\* action: it is judged on 100 and, the threshold being 100, accepted
C18_Witness ==
    \E c \in Calls :
        /\ ModeB(c) /\ Decided(c) /\ exit[c] = "timeout"
        /\ LacksRequired(c, data[c])
        /\ data[c].has_risk_score /\ data[c].risk_score = 51
        /\ risk_score[c] = 100 /\ max_risk_score = 100 /\ Accepted(c)

\* C19: when the clock advances, sleeps and fetches complete and well-formed
\* 200 responses keep coming, every call that is sleeping or fetching
\* eventually ends; a call with require_action None ends on the first 200
\* response it processes, a call with require_action set on the first 200
\* response that carries the action or is processed with the elapsed time
\* beyond the timeout.
C19_TerminatesWhenResponsive ==
    /\ \A c \in Calls : (pc[c] \in {"sleep", "get"}) ~> (pc[c] = "done")
    /\ [][\A c \in Calls :
            ( /\ pc[c] = "get" /\ Frame(c)' # Frame(c)
              /\ response'[c].kind = "http" /\ response'[c].status = 200
              /\ \/ require_action[c] = None
                 \/ Elapsed(c) > session_validation_timeout[c]
                 \/ /\ HasRequired(c, data'[c])
                    /\ raised'[c].type \notin MalformedErrors ) =>
                pc'[c] = "done"]_vars

\* a call with the longest timeout that polled on and was ended, by the
\* timeout, at a later poll whose response listed no action at all
C19_Witness ==
    \E c \in Calls :
        /\ ModeB(c) /\ Done(c) /\ exit[c] = "timeout" /\ fetches[c] = MaxFetches
        /\ session_validation_timeout[c] = MaxTimeout
        /\ data[c].user_logs = <<>>

====
